---- MODULE Spec2Model ----
(***************************************************************************)
(* A model of ubiquity's persistent archive store (src/src/archive.rs):    *)
(* ArchiveFile wrappers of concurrent sessions reading, writing, removing  *)
(* and discarding archive files of one archive directory, the versioned    *)
(* binary image of an entry table, and the ArchiveEntries table itself.    *)
(*                                                                         *)
(* File system and locking follow POSIX: a directory entry names an inode, *)
(* an unlinked inode lives on while a handle refers to it, and the lock    *)
(* taken by fs2's lock_exclusive is a flock lock, owned by the open file   *)
(* description and dropped when that description is closed.                *)
(***************************************************************************)
EXTENDS Integers, Sequences, FiniteSets, TLC

\* ------------------------------------------------------------------ bounds
\* the number of replicas, N of NumRoots
N == 2
\* the number of distinct hashed paths (keys of an entry table)
NumKeys == 2
\* the number of ArchiveFile wrappers (one session each) working concurrently
NumWrappers == 2

\* ------------------------------------------------------- program constants
ARCHIVE_VERSION == 3
\* Option::None of ArchiveFile.file; also "no inode" and "no lock owner"
None == 0

\* ------------------------------------------------------------ entry tables
Replicas == 1..N
Keys == 1..NumKeys
\* the variants of ArchiveEntryPerReplica this model distinguishes
EntryStates == {"Empty", "File", "Directory"}
\* an entry row: GenericArray<ArchiveEntryPerReplica, N>
Rows == [Replicas -> EntryStates]
\* ArchiveEntryMap<N>: every map from a set of hashed paths to rows
Tables == UNION {[D -> Rows] : D \in SUBSET Keys}
\* Default::default() of ArchiveEntryMap
EmptyTable == [k \in {} |-> <<>>]
EmptyRow == [r \in Replicas |-> "Empty"]

\* the closure of prune_deleted's filter: `delete` starts true and every
\* replica that is not Empty clears it
RECURSIVE DeleteFlag(_, _, _)
DeleteFlag(entry, i, delete) ==
    IF i > N THEN delete
    ELSE DeleteFlag(entry, i + 1, IF entry[i] = "Empty" THEN delete ELSE FALSE)

\* a plausible slip: `delete` starts false and an Empty replica sets it
RECURSIVE DeleteFlagAny(_, _, _)
DeleteFlagAny(entry, i, delete) ==
    IF i > N THEN delete
    ELSE DeleteFlagAny(entry, i + 1, IF entry[i] = "Empty" THEN TRUE ELSE delete)

MutIsDeleted(entry) == DeleteFlagAny(entry, 1, FALSE)

IsDeleted(entry) == DeleteFlag(entry, 1, TRUE)

\* ArchiveEntries::prune_deleted: collect the keys the filter selects, then
\* remove each of them from the map
PruneDeleted(entries) ==
    LET empties == {k \in DOMAIN entries : IsDeleted(entries[k])}
    IN  [k \in (DOMAIN entries) \ empties |-> entries[k]]

\* ------------------------------------------------------ the binary image
\* A file is a sequence of cells. The version tag is four byte cells, little
\* endian; every other value of the payload (the map's length, a hashed path,
\* a variant index) is one cell.
Pow8 == 256

\* write_u32::<LittleEndian>
MutEncodeU32(v) ==
    <<(v \div (Pow8 * Pow8 * Pow8)) % Pow8, (v \div (Pow8 * Pow8)) % Pow8,
      (v \div Pow8) % Pow8, v % Pow8>>

EncodeU32(v) ==
    <<v % Pow8, (v \div Pow8) % Pow8, (v \div (Pow8 * Pow8)) % Pow8,
      (v \div (Pow8 * Pow8 * Pow8)) % Pow8>>

\* read_u32::<LittleEndian> of the first four cells
DecodeU32(b) ==
    b[1] + Pow8 * b[2] + Pow8 * Pow8 * b[3] + Pow8 * Pow8 * Pow8 * b[4]

\* serde's variant index of an ArchiveEntryPerReplica
VariantIndex(s) ==
    CASE s = "Empty" -> 0
      [] s = "File" -> 1
      [] s = "Directory" -> 2

VariantOf(c) ==
    CASE c = 0 -> "Empty"
      [] c = 1 -> "File"
      [] c = 2 -> "Directory"

IsVariantIndex(c) == c \in {VariantIndex(s) : s \in EntryStates}

\* the orders in which a hash map may hand out its keys
IterOrders(entries) ==
    LET D == DOMAIN entries
    IN  {o \in [1..Cardinality(D) -> D] : \A i, j \in DOMAIN o : i # j => o[i] # o[j]}

SerializeRow(row) == [i \in Replicas |-> VariantIndex(row[i])]

RECURSIVE SerializeFrom(_, _, _)
SerializeFrom(entries, order, i) ==
    IF i > Len(order) THEN <<>>
    ELSE <<order[i]>> \o SerializeRow(entries[order[i]])
         \o SerializeFrom(entries, order, i + 1)

\* bincode's serialize_into of the map, its keys taken in `order`
SerializeInto(entries, order) ==
    <<Len(order)>> \o SerializeFrom(entries, order, 1)

\* write_entries: the version tag, then the payload
WriteEntries(entries, order) ==
    EncodeU32(ARCHIVE_VERSION) \o SerializeInto(entries, order)

\* the images write_entries can produce for a table
ImagesOf(entries) == {WriteEntries(entries, o) : o \in IterOrders(entries)}

\* bincode's deserialize_from: `remaining` entries are still to be read from
\* cell `pos` on; a missing cell or an unknown variant index is an error, and
\* cells after the last entry are not looked at
RECURSIVE DeserializeLoop(_, _, _, _)
DeserializeLoop(cells, pos, remaining, acc) ==
    IF remaining = 0 THEN [ok |-> TRUE, map |-> acc]
    ELSE IF pos + N > Len(cells) THEN [ok |-> FALSE, map |-> EmptyTable]
    ELSE IF \E i \in Replicas : ~IsVariantIndex(cells[pos + i])
         THEN [ok |-> FALSE, map |-> EmptyTable]
    ELSE LET key == cells[pos]
             row == [i \in Replicas |-> VariantOf(cells[pos + i])]
             ins == [k \in (DOMAIN acc) \cup {key} |->
                        IF k = key THEN row ELSE acc[k]]
         IN  DeserializeLoop(cells, pos + N + 1, remaining - 1, ins)

DeserializeFrom(cells) ==
    IF Len(cells) = 0 THEN [ok |-> FALSE, map |-> EmptyTable]
    ELSE DeserializeLoop(cells, 2, cells[1], EmptyTable)

\* the results of read_entries and read_from_file
Res(kind, map) == [kind |-> kind, map |-> map]

\* read_entries: the tag, the version test, the payload
ReadEntries(bytes) ==
    IF Len(bytes) < 4 THEN Res("IoError", EmptyTable)
    ELSE IF DecodeU32(bytes) # ARCHIVE_VERSION
         THEN Res("InvalidArchiveVersion", EmptyTable)
    ELSE LET d == DeserializeFrom(SubSeq(bytes, 5, Len(bytes)))
         IN  IF d.ok THEN Res("Ok", d.map) ELSE Res("BincodeError", EmptyTable)

\* a plausible slip: the end-of-stream case the source has commented out,
\* absorbed again as an empty table
MutReadFromFile(bytes) ==
    LET r == ReadEntries(bytes)
    IN  IF r.kind \in {"InvalidArchiveVersion", "BincodeError"}
        THEN Res("Ok", EmptyTable) ELSE r

\* a plausible slip: no arm for InvalidArchiveVersion, so that it is handed
\* on like every other error
MutReadFromFileStrict(bytes) == ReadEntries(bytes)

\* read_from_file: a foreign version reads as the default (empty) map, every
\* other error is handed on
ReadFromFile(bytes) ==
    LET r == ReadEntries(bytes)
    IN  IF r.kind = "InvalidArchiveVersion" THEN Res("Ok", EmptyTable) ELSE r

\* a plausible slip: a table read with rows in it counts as touched
MutArchiveEntriesNew(entries) == [entries |-> entries, dirty |-> entries # EmptyTable]

\* ArchiveEntries::new and ArchiveEntries::empty
ArchiveEntriesNew(entries) == [entries |-> entries, dirty |-> FALSE]

ArchiveEntriesEmpty == [entries |-> EmptyTable, dirty |-> FALSE]

\* ------------------------------------------------------------ the replicas
\* The relative paths of a replica: the root itself, one directory in it and
\* the children of that directory.
Names == {"f", "g"}
Top == <<>>
Sub == <<"sub">>
RelPaths == {Top, Sub} \cup {Sub \o <<n>> : n \in Names}

\* what a relative path is under one root: a root that is there is a
\* directory, and a path is there only inside a directory
IsTree(t) ==
    /\ t[Top] \in {"Empty", "Directory"}
    /\ t[Sub] # "Empty" => t[Top] = "Directory"
    /\ \A n \in Names : t[Sub \o <<n>>] # "Empty" => t[Sub] = "Directory"

Trees == {t \in [RelPaths -> EntryStates] : IsTree(t)}

\* a root that exists and holds nothing
BareTree == [p \in RelPaths |-> IF p = Top THEN "Directory" ELSE "Empty"]

\* config.ignore: literal path prefixes, and regexes, each of them here a
\* literal that matches every path whose string form has it as a component
Ignores == [paths : SUBSET {Sub, Sub \o <<"f">>}, regexes : SUBSET {"g", "sub"}]

NoIgnore == [paths |-> {}, regexes |-> {}]

\* ------------------------------------------------- the archive directory
Wrappers == 1..NumWrappers
\* the archive files of the directory, one per hashed replica directory
Paths == {1, 2}
\* the archive file of the directory the sessions work on, where they all
\* work on the same
HomePaths == {1}
\* an inode for every path, and one for every handle on an unlinked file
Inodes == 1..(Cardinality(Paths) + NumWrappers)

VARIABLES
    dirent,    \* dirent[p]: the inode the path names, None when it does not exist
    data,      \* data[i]: the cells of inode i
    lock,      \* lock[i]: the wrapper whose handle holds the flock on inode i
    life,      \* life[w]: "unborn", "live" or "discarded"
    path,      \* path[w]: ArchiveFile.path
    file,      \* file[w]: ArchiveFile.file, the cached handle's inode or None
    opened,    \* opened[w]: the local `file` of a running read or write
    pc,        \* pc[w]: where the wrapper's running call stands
    arg,       \* arg[w]: the entries of the running write, given and pruned
    ret,       \* ret[w]: what the wrapper's last finished call returned
    foreign,   \* foreign[i]: the cells of inode i were not written by this code
    lastWrite, \* lastWrite[p]: the table the last finished write of p persisted
    table,     \* an ArchiveEntries value in the hands of the traversal driver
    before,    \* its entries before the last call, when that was a prune
    tcall,     \* the last call on it
    inserted,  \* insert has been called on it since it was constructed
    tree,      \* tree[r][p]: what relative path p is under root r
    ignore,    \* config.ignore: the literal prefixes and the regexes
    current_entries, \* the result map the scanner fills
    scanned,   \* the last scan: its directory and the map it started from
    util       \* the last call of a helper of detect/util.rs and its result

fsvars == <<dirent, data, lock, life, path, file, opened, pc, arg, ret,
            foreign, lastWrite>>

tvars == <<table, before, tcall, inserted>>

svars == <<tree, ignore, current_entries, scanned, util>>

\* what the driver holds in memory
dvars == <<tvars, svars>>

vars == <<fsvars, dvars>>

\* what a call returned: the call, its outcome, the table a read returned,
\* the table a write was given and what pruning left of it; for a discard,
\* `held` tells whether it closed a cached handle
Ret(op, kind, val, w_arg, held) ==
    [op |-> op, kind |-> kind, val |-> val, given |-> w_arg.given,
     wrote |-> w_arg.entries, held |-> held]

\* the entries of a running write: as given, and as pruned
Arg(given, entries) == [given |-> given, entries |-> entries]

NoArg == Arg(EmptyTable, EmptyTable)

NoRet == Ret("none", "none", ArchiveEntriesEmpty, NoArg, FALSE)

\* the handle a running call works on
Handle(w) == IF opened[w] # None THEN opened[w] ELSE file[w]

\* an inode no path names and no handle refers to
Unused(i) ==
    /\ \A p \in Paths : dirent[p] # i
    /\ \A w \in Wrappers : file[w] # i /\ opened[w] # i

\* the inode a creating open allocates
FreshInode == CHOOSE i \in Inodes : Unused(i) /\ \A j \in Inodes : Unused(j) => i <= j

\* files that exist before any session of the model starts
ForeignTagImages ==
    {EncodeU32(2) \o <<0>>, <<0, 0, 0, 3>> \o <<0>>,
     EncodeU32(ARCHIVE_VERSION + Pow8 * Pow8 * Pow8) \o <<1, 1>>}

ShortImages == {<<>>, <<3, 0, 0>>}

BadPayloadImages ==
    {EncodeU32(ARCHIVE_VERSION),
     EncodeU32(ARCHIVE_VERSION) \o <<1, 1>>,
     EncodeU32(ARCHIVE_VERSION) \o <<1, 1>> \o [i \in Replicas |-> 9]}

EmptyPayloadImages == {EncodeU32(ARCHIVE_VERSION) \o <<0>>}

OddImages ==
    ForeignTagImages \cup ShortImages \cup BadPayloadImages \cup EmptyPayloadImages

\* the tables the sessions of the concurrent specification write
RowFile == [r \in Replicas |-> IF r = 1 THEN "File" ELSE "Empty"]
RowDir == [r \in Replicas |-> "Directory"]
ConcTables ==
    {[k \in {1} |-> EmptyRow], [k \in {1, 2} |-> IF k = 1 THEN RowFile ELSE EmptyRow]}

\* the files the concurrent specification starts from
ConcOddImages ==
    {EncodeU32(2) \o <<0>>, <<3, 0, 0>>, EncodeU32(ARCHIVE_VERSION) \o <<1, 1>>}

\* the state before any wrapper is constructed: every path is absent, or
\* names a file that holds an image of `prior`, written by an earlier run of
\* this code, or an image of `odd`, which this code did not write
InitFiles(prior, odd, paths) ==
    /\ \E exists \in SUBSET paths :
          /\ dirent = [p \in Paths |-> IF p \in exists THEN p ELSE None]
          /\ \E img \in [exists -> prior \cup odd] :
                data = [i \in Inodes |-> IF i \in exists THEN img[i] ELSE <<>>]
    /\ lock = [i \in Inodes |-> None]
    /\ life = [w \in Wrappers |-> "unborn"]
    /\ path = [w \in Wrappers |-> CHOOSE p \in HomePaths : TRUE]
    /\ file = [w \in Wrappers |-> None]
    /\ opened = [w \in Wrappers |-> None]
    /\ pc = [w \in Wrappers |-> "idle"]
    /\ arg = [w \in Wrappers |-> NoArg]
    /\ ret = [w \in Wrappers |-> NoRet]
    /\ foreign = [i \in Inodes |->
                    (\E p \in Paths : dirent[p] = i) /\ data[i] \in odd]
    /\ lastWrite = [p \in Paths |->
                    IF dirent[p] # None /\ ~foreign[dirent[p]]
                    THEN ReadFromFile(data[dirent[p]]).map ELSE EmptyTable]
    /\ table = ArchiveEntriesEmpty
    /\ before = EmptyTable
    /\ tcall = "empty"
    /\ inserted = FALSE

\* the state before any wrapper is constructed, the sessions having one
\* directory to work on
InitArchive(prior, odd) == InitFiles(prior, odd, HomePaths)

\* no scan and no helper call yet
NoScan == [done |-> FALSE, dir |-> Top, start |-> EmptyTable]

NoUtil == [op |-> "none", a |-> EmptyRow, b |-> EmptyRow, val |-> FALSE,
           root |-> None, examined |-> 0]

\* the replicas as the run finds them, and the configured rules
InitReplicas(trees, rules) ==
    /\ tree \in [Replicas -> trees]
    /\ ignore \in rules
    /\ current_entries = EmptyTable
    /\ scanned = NoScan
    /\ util = NoUtil

InitWith(prior, odd) ==
    InitArchive(prior, odd) /\ InitReplicas({BareTree}, {NoIgnore})

\* ------------------------------------------------------------ primitives
\* closing the handle of wrapper w (dropping its fs::File) gives up the
\* flock its open file description holds
MutCloseHandle(lk, w) == lk

CloseHandle(lk, w) == [i \in Inodes |-> IF lk[i] = w THEN None ELSE lk[i]]

\* a plausible slip: every failing call closes the wrapper's handle, the
\* cached one as well
MutDropLocalAlways(lk, w) == CloseHandle(lk, w)

\* a plausible slip: the handle a failing call opened is kept alive
MutDropLocal(lk, w) == lk

\* `?` returns an error from read or write: the local `file` the call opened
\* goes out of scope and is closed; a call working on the cached handle has
\* no local one
DropLocal(lk, w) == IF opened[w] # None THEN CloseHandle(lk, w) ELSE lk

\* flock(LOCK_UN) through the description that Drop has just opened: that
\* description holds no lock, and the locks of other descriptions stay
UnlockFresh(lk, i) == lk

\* the cells of a file after `bytes` are written at offset `pos`
WriteAt(cells, pos, bytes) ==
    LET n == IF Len(cells) > pos + Len(bytes) THEN Len(cells) ELSE pos + Len(bytes)
    IN  [j \in 1..n |->
            IF j > pos /\ j <= pos + Len(bytes) THEN bytes[j - pos]
            ELSE IF j <= Len(cells) THEN cells[j] ELSE 0]

\* an inode is kept while a path names it or a handle refers to it
InUse(i, de, fi, op) ==
    \/ \E p \in Paths : de[p] = i
    \/ \E w \in Wrappers : fi[w] = i \/ op[w] = i

\* the cells and the marks of the inodes after a step that leaves paths `de`
\* and handles `fi`, `op`: an inode nothing refers to any more is freed
Reclaim(d, de, fi, op) ==
    [i \in Inodes |-> IF InUse(i, de, fi, op) THEN d[i] ELSE <<>>]

ReclaimMark(f, de, fi, op) ==
    [i \in Inodes |-> InUse(i, de, fi, op) /\ f[i]]

\* OpenOptions read+write+create .open(path): the first half of open_file.
\* A missing file is created, empty.
OpenCreate(w, next) ==
    LET p == path[w]
    IN  /\ IF dirent[p] # None
           THEN /\ opened' = [opened EXCEPT ![w] = dirent[p]]
                /\ UNCHANGED <<dirent, data, foreign>>
           ELSE /\ opened' = [opened EXCEPT ![w] = FreshInode]
                /\ dirent' = [dirent EXCEPT ![p] = FreshInode]
                /\ data' = [data EXCEPT ![FreshInode] = <<>>]
                /\ foreign' = [foreign EXCEPT ![FreshInode] = FALSE]
        /\ pc' = [pc EXCEPT ![w] = next]

\* file.lock_exclusive(): the second half of open_file, which waits until
\* no other description holds the lock of the inode
LockExclusive(w, next) ==
    /\ lock[opened[w]] = None
    /\ lock' = [lock EXCEPT ![opened[w]] = w]
    /\ pc' = [pc EXCEPT ![w] = next]

\* ------------------------------------------------------------ operations
\* Archive::for_hashed_directory / ArchiveFile::new: a wrapper for path p,
\* Closed
New(w, p) ==
    /\ life[w] # "live"
    /\ life' = [life EXCEPT ![w] = "live"]
    /\ path' = [path EXCEPT ![w] = p]
    /\ ret' = [ret EXCEPT ![w] = NoRet]
    /\ UNCHANGED <<dirent, data, lock, file, opened, pc, arg, foreign, lastWrite, dvars>>

\* ArchiveFile::read: the cached handle when there is one; otherwise
\* path.exists() decides between open_file and ArchiveEntries::empty()
ReadBeginCall(w) ==
    /\ life[w] = "live" /\ pc[w] = "idle"
    /\ IF file[w] # None
       THEN /\ pc' = [pc EXCEPT ![w] = "r_read"]
            /\ UNCHANGED ret
       ELSE IF dirent[path[w]] # None
       THEN /\ pc' = [pc EXCEPT ![w] = "r_open"]
            /\ UNCHANGED ret
       ELSE /\ ret' = [ret EXCEPT ![w] =
                  Ret("read", "Ok", ArchiveEntriesEmpty, NoArg, FALSE)]
            /\ UNCHANGED pc
    /\ UNCHANGED <<dirent, data, lock, life, path, file, opened, arg,
                   foreign, lastWrite>>

\* read called with a result the model does not hand to the entry table
ReadBegin(w) == ReadBeginCall(w) /\ UNCHANGED dvars

ReadOpen(w) ==
    /\ pc[w] = "r_open"
    /\ OpenCreate(w, "r_lock")
    /\ UNCHANGED <<lock, life, path, file, arg, ret, lastWrite, dvars>>

ReadLock(w) ==
    /\ pc[w] = "r_lock"
    /\ LockExclusive(w, "r_read")
    /\ UNCHANGED <<dirent, data, life, path, file, opened, arg, ret,
                   foreign, lastWrite, dvars>>

\* read_from_file through the handle: seek to the start, read_entries. A
\* handle opened by this call is cached when the read succeeds and dropped
\* (closed) when `?` returns its error; a cached handle stays
ReadFileCall(w) ==
    /\ pc[w] = "r_read"
    /\ LET r == ReadFromFile(data[Handle(w)])
       IN  /\ ret' = [ret EXCEPT ![w] =
                  Ret("read", r.kind, ArchiveEntriesNew(r.map), NoArg, FALSE)]
           /\ IF r.kind = "Ok"
              THEN /\ file' = [file EXCEPT ![w] = Handle(w)]
                   /\ UNCHANGED lock
              ELSE /\ lock' = DropLocal(lock, w)
                   /\ UNCHANGED file
    /\ opened' = [opened EXCEPT ![w] = None]
    /\ pc' = [pc EXCEPT ![w] = "idle"]
    /\ data' = Reclaim(data, dirent, file', opened')
    /\ foreign' = ReclaimMark(foreign, dirent, file', opened')
    /\ UNCHANGED <<dirent, life, path, arg, lastWrite>>

ReadFile(w) == ReadFileCall(w) /\ UNCHANGED dvars

\* ArchiveFile::remove_all, entered from write (op = "write") with the
\* entries `a`, or called directly: path.exists() decides whether anything
\* is done
RemoveAllBegin(w, op, a, close, unlink) ==
    IF dirent[path[w]] # None
    THEN /\ pc' = [pc EXCEPT ![w] = IF file[w] # None THEN close ELSE unlink]
         /\ arg' = [arg EXCEPT ![w] = a]
         /\ UNCHANGED <<ret, lastWrite>>
    ELSE /\ ret' = [ret EXCEPT ![w] =
               Ret(op, "Ok", ArchiveEntriesEmpty, a, FALSE)]
         /\ lastWrite' = [lastWrite EXCEPT ![path[w]] = EmptyTable]
         /\ UNCHANGED <<pc, arg>>

\* self.file = None: the cached handle is closed
RemoveAllClose(w, close, unlink) ==
    /\ pc[w] = close
    /\ file' = [file EXCEPT ![w] = None]
    /\ lock' = CloseHandle(lock, w)
    /\ pc' = [pc EXCEPT ![w] = unlink]
    /\ data' = Reclaim(data, dirent, file', opened)
    /\ foreign' = ReclaimMark(foreign, dirent, file', opened)
    /\ UNCHANGED <<dirent, life, path, opened, arg, ret, lastWrite, dvars>>

\* fs::remove_file(path): fails when the path is gone by now
RemoveAllUnlink(w, op, unlink) ==
    /\ pc[w] = unlink
    /\ LET p == path[w]
       IN  IF dirent[p] # None
           THEN /\ dirent' = [dirent EXCEPT ![p] = None]
                /\ lastWrite' = [lastWrite EXCEPT ![p] = EmptyTable]
                /\ ret' = [ret EXCEPT ![w] =
                      Ret(op, "Ok", ArchiveEntriesEmpty, arg[w], FALSE)]
           ELSE /\ ret' = [ret EXCEPT ![w] =
                      Ret(op, "IoError", ArchiveEntriesEmpty, arg[w], FALSE)]
                /\ UNCHANGED <<dirent, lastWrite>>
    /\ arg' = [arg EXCEPT ![w] = NoArg]
    /\ pc' = [pc EXCEPT ![w] = "idle"]
    /\ data' = Reclaim(data, dirent', file, opened)
    /\ foreign' = ReclaimMark(foreign, dirent', file, opened)
    /\ UNCHANGED <<lock, life, path, file, opened, dvars>>

\* a direct call of ArchiveFile::remove_all
RemoveAll(w) ==
    /\ life[w] = "live" /\ pc[w] = "idle"
    /\ RemoveAllBegin(w, "remove_all", NoArg, "ra_close", "ra_unlink")
    /\ UNCHANGED <<dirent, data, lock, life, path, file, opened, foreign, dvars>>

RemoveAllStep(w) ==
    \/ RemoveAllClose(w, "ra_close", "ra_unlink")
    \/ RemoveAllUnlink(w, "remove_all", "ra_unlink")

\* ArchiveFile::write: prune, then remove_all for an empty table, the cached
\* handle when there is one, and open_file otherwise
WriteCall(w, entries) ==
    /\ life[w] = "live" /\ pc[w] = "idle"
    /\ LET pruned == PruneDeleted(entries)
       IN  IF pruned = EmptyTable
           THEN /\ RemoveAllBegin(w, "write", Arg(entries, pruned),
                                  "rm_close", "rm_unlink")
                /\ UNCHANGED <<dirent, data, opened, foreign>>
           ELSE IF file[w] # None
           THEN /\ pc' = [pc EXCEPT ![w] = "w_trunc"]
                /\ arg' = [arg EXCEPT ![w] = Arg(entries, pruned)]
                /\ UNCHANGED <<dirent, data, opened, foreign, ret, lastWrite>>
           ELSE /\ OpenCreate(w, "w_lock")
                /\ arg' = [arg EXCEPT ![w] = Arg(entries, pruned)]
                /\ UNCHANGED <<ret, lastWrite>>
    /\ UNCHANGED <<lock, life, path, file>>

\* write called with entries the model draws afresh
Write(w, entries) == WriteCall(w, entries) /\ UNCHANGED dvars

WriteRemoveStep(w) ==
    \/ RemoveAllClose(w, "rm_close", "rm_unlink")
    \/ RemoveAllUnlink(w, "write", "rm_unlink")

WriteLock(w) ==
    /\ pc[w] = "w_lock"
    /\ LockExclusive(w, "w_trunc")
    /\ UNCHANGED <<dirent, data, life, path, file, opened, arg, ret,
                   foreign, lastWrite, dvars>>

\* write_to_file: file.set_len(0) and the seek to the start
WriteTruncate(w) ==
    /\ pc[w] = "w_trunc"
    /\ data' = [data EXCEPT ![Handle(w)] = <<>>]
    /\ foreign' = [foreign EXCEPT ![Handle(w)] = FALSE]
    /\ pc' = [pc EXCEPT ![w] = "w_tag"]
    /\ UNCHANGED <<dirent, lock, life, path, file, opened, arg, ret, lastWrite, dvars>>

\* write_to_file: set_len fails and `?` returns the error; a handle opened
\* by this call is dropped, a cached one stays
WriteTruncateFails(w) ==
    /\ pc[w] = "w_trunc"
    /\ ret' = [ret EXCEPT ![w] =
          Ret("write", "IoError", ArchiveEntriesEmpty, arg[w], FALSE)]
    /\ arg' = [arg EXCEPT ![w] = NoArg]
    /\ lock' = DropLocal(lock, w)
    /\ opened' = [opened EXCEPT ![w] = None]
    /\ pc' = [pc EXCEPT ![w] = "idle"]
    /\ data' = Reclaim(data, dirent, file, opened')
    /\ foreign' = ReclaimMark(foreign, dirent, file, opened')
    /\ UNCHANGED <<dirent, life, path, file, lastWrite, dvars>>

\* write_entries: the version tag
WriteTag(w) ==
    /\ pc[w] = "w_tag"
    /\ data' = [data EXCEPT ![Handle(w)] = WriteAt(@, 0, EncodeU32(ARCHIVE_VERSION))]
    /\ pc' = [pc EXCEPT ![w] = "w_payload"]
    /\ UNCHANGED <<dirent, lock, life, path, file, opened, arg, ret,
                   foreign, lastWrite, dvars>>

\* write_entries: the payload; then write caches the handle and returns
WritePayload(w) ==
    /\ pc[w] = "w_payload"
    /\ \E order \in IterOrders(arg[w].entries) :
          data' = [data EXCEPT ![Handle(w)] =
                      WriteAt(@, 4, SerializeInto(arg[w].entries, order))]
    /\ file' = [file EXCEPT ![w] = Handle(w)]
    /\ opened' = [opened EXCEPT ![w] = None]
    /\ ret' = [ret EXCEPT ![w] =
          Ret("write", "Ok", ArchiveEntriesEmpty, arg[w], FALSE)]
    /\ lastWrite' = [lastWrite EXCEPT ![path[w]] = arg[w].entries]
    /\ arg' = [arg EXCEPT ![w] = NoArg]
    /\ pc' = [pc EXCEPT ![w] = "idle"]
    /\ UNCHANGED <<dirent, lock, life, path, foreign, dvars>>

\* Drop for ArchiveFile: path.exists() decides whether the unlock is tried
DropBegin(w) ==
    /\ life[w] = "live" /\ pc[w] = "idle"
    /\ pc' = [pc EXCEPT ![w] =
          IF dirent[path[w]] # None THEN "d_unlock" ELSE "d_fields"]
    /\ UNCHANGED <<dirent, data, lock, life, path, file, opened, arg, ret,
                   foreign, lastWrite, dvars>>

\* File::open(path).unwrap(), f.unlock().unwrap(), and f is closed; the
\* unwrap panics when the path is gone by now
DropUnlock(w) ==
    /\ pc[w] = "d_unlock"
    /\ IF dirent[path[w]] # None
       THEN /\ lock' = UnlockFresh(lock, dirent[path[w]])
            /\ pc' = [pc EXCEPT ![w] = "d_fields"]
       ELSE /\ pc' = [pc EXCEPT ![w] = "d_panic"]
            /\ UNCHANGED lock
    /\ UNCHANGED <<dirent, data, life, path, file, opened, arg, ret,
                   foreign, lastWrite, dvars>>

\* a plausible slip: the handle is leaked at the discard (its descriptor
\* stays open in the process), so that its lock is never given up
MutDropFields(w) ==
    /\ pc[w] \in {"d_fields", "d_panic"}
    /\ life' = [life EXCEPT ![w] = "discarded"]
    /\ ret' = [ret EXCEPT ![w] =
          Ret("drop", IF pc[w] = "d_panic" THEN "panic" ELSE "Ok",
              ArchiveEntriesEmpty, NoArg, file[w] # None)]
    /\ pc' = [pc EXCEPT ![w] = "idle"]
    /\ UNCHANGED <<dirent, data, lock, path, file, opened, arg, foreign,
                   lastWrite, dvars>>

\* the fields of the wrapper are dropped, also when drop() panicked: the
\* cached handle is closed
DropFields(w) ==
    /\ pc[w] \in {"d_fields", "d_panic"}
    /\ file' = [file EXCEPT ![w] = None]
    /\ lock' = CloseHandle(lock, w)
    /\ life' = [life EXCEPT ![w] = "discarded"]
    /\ ret' = [ret EXCEPT ![w] =
          Ret("drop", IF pc[w] = "d_panic" THEN "panic" ELSE "Ok",
              ArchiveEntriesEmpty, NoArg, file[w] # None)]
    /\ pc' = [pc EXCEPT ![w] = "idle"]
    /\ data' = Reclaim(data, dirent, file', opened)
    /\ foreign' = ReclaimMark(foreign, dirent, file', opened)
    /\ UNCHANGED <<dirent, path, opened, arg, lastWrite, dvars>>

\* ------------------------------------------------------- specifications
\* one step of wrapper w, made for a directory of `paths`, its writes
\* drawing their tables from `tables`
StepOn(w, tables, paths) ==
    \/ \E p \in paths : New(w, p)
    \/ ReadBegin(w)
    \/ ReadOpen(w)
    \/ ReadLock(w)
    \/ ReadFile(w)
    \/ \E t \in tables : Write(w, t)
    \/ WriteRemoveStep(w)
    \/ WriteLock(w)
    \/ WriteTruncate(w)
    \/ WriteTag(w)
    \/ WritePayload(w)
    \/ RemoveAll(w)
    \/ RemoveAllStep(w)
    \/ DropBegin(w)
    \/ DropUnlock(w)
    \/ DropFields(w)

Step(w, tables) == StepOn(w, tables, HomePaths)

\* concurrent sessions, one wrapper each, on the same archive directory
Init == InitWith(ImagesOf([k \in {2} |-> RowDir]), ConcOddImages)

Next == \E w \in Wrappers : Step(w, ConcTables)

Spec == Init /\ [][Next]_vars

\* one session alone with the archive directory, its wrapper writing any
\* table of SoloTables over any file a prior run or a stranger has left,
\* on a disk whose set_len may fail
SoloRows == {EmptyRow, RowFile}

SoloTables == UNION {[D -> SoloRows] : D \in SUBSET Keys}

\* the tables prior runs have left: directories only
PriorTables == UNION {[D -> {RowDir}] : D \in (SUBSET Keys) \ {{}}}

InitSolo == InitWith(UNION {ImagesOf(t) : t \in PriorTables}, OddImages)

NextSolo == Step(1, SoloTables) \/ WriteTruncateFails(1)

SpecSolo == InitSolo /\ [][NextSolo]_vars

\* sessions that take a directory each time they construct a wrapper, the
\* same as another session or a different one, and discard every wrapper in
\* the end: session 1 goes through both directories, reads, and also finds
\* tables emptied; every other session stays with one directory and writes
\* the rows it has found
LivePaths(w) == IF w = 1 THEN Paths ELSE HomePaths

LiveTables(w) ==
    IF w = 1 THEN {[k \in {1} |-> EmptyRow], [k \in {1} |-> RowFile]}
    ELSE {[k \in {1} |-> RowFile]}

InitLive ==
    /\ InitFiles(ImagesOf([k \in {1} |-> RowFile]), {}, HomePaths)
    /\ InitReplicas({BareTree}, {NoIgnore})

LiveStep(w) ==
    \/ \E p \in LivePaths(w) : New(w, p)
    \/ (w = 1 /\ ReadBegin(w))
    \/ ReadOpen(w)
    \/ ReadLock(w)
    \/ ReadFile(w)
    \/ \E t \in LiveTables(w) : Write(w, t)
    \/ WriteRemoveStep(w)
    \/ WriteLock(w)
    \/ WriteTruncate(w)
    \/ WriteTag(w)
    \/ WritePayload(w)
    \/ DropBegin(w)
    \/ DropUnlock(w)
    \/ DropFields(w)

NextLive == \E w \in Wrappers : LiveStep(w)

\* a running call goes on when it can: every step but the wait for the lock
Proceed(w) ==
    \/ ReadOpen(w)
    \/ ReadFile(w)
    \/ WriteRemoveStep(w)
    \/ WriteTruncate(w)
    \/ WriteTag(w)
    \/ WritePayload(w)
    \/ DropUnlock(w)
    \/ DropFields(w)

\* lock_exclusive returns: the wait for the lock is over
Acquire(w) == ReadLock(w) \/ WriteLock(w)

\* the scheduler is fair to every session, a waiter that finds the lock free
\* for good takes it, and a session discards the wrapper it holds in the end.
\* flock promises no order among those who want a lock: nothing keeps a
\* session that comes later from taking it before one that waits
Fairness ==
    \A w \in Wrappers :
        /\ WF_vars(Proceed(w))
        /\ WF_vars(Acquire(w))
        /\ SF_vars(DropBegin(w))

\* a lock that is fair to its waiters: a waiter that finds the lock free
\* again and again takes it in the end
FairLock == \A w \in Wrappers : SF_vars(Acquire(w))

SpecLive == InitLive /\ [][NextLive]_vars /\ Fairness

\* ---------------------------------------------------- the entry table
\* the driver is single-threaded: it calls the table while no call of its
\* wrapper is running
DriverIdle == \A w \in Wrappers : pc[w] = "idle"

\* ArchiveEntries::insert; the hashed path of `path` is k
Insert(k, row) ==
    /\ DriverIdle
    /\ UNCHANGED fsvars
    /\ before' = EmptyTable
    /\ table' = [entries |-> [j \in (DOMAIN table.entries) \cup {k} |->
                                 IF j = k THEN row ELSE table.entries[j]],
                 dirty |-> TRUE]
    /\ tcall' = "insert"
    /\ inserted' = TRUE
    /\ UNCHANGED svars

\* ArchiveEntries::prune_deleted
Prune ==
    /\ DriverIdle
    /\ UNCHANGED fsvars
    /\ before' = table.entries
    /\ table' = [table EXCEPT !.entries = PruneDeleted(table.entries)]
    /\ tcall' = "prune_deleted"
    /\ UNCHANGED <<inserted, svars>>

\* a traversal driver building a table by inserts and pruning it
InitTable == InitWith({}, {})

NextTable ==
    \/ \E k \in Keys, row \in Rows : Insert(k, row)
    \/ Prune

SpecTable == InitTable /\ [][NextTable]_vars

\* ------------------------------------- the entry table and its archive file
\* ArchiveEntries::empty(): the driver starts a table of its own
TableEmpty ==
    /\ DriverIdle
    /\ UNCHANGED fsvars
    /\ table' = ArchiveEntriesEmpty
    /\ before' = EmptyTable
    /\ tcall' = "empty"
    /\ inserted' = FALSE
    /\ UNCHANGED svars

\* ArchiveEntries::get and ArchiveEntries::iter borrow the table immutably
Get(k) ==
    /\ DriverIdle
    /\ UNCHANGED <<fsvars, table, inserted, svars>>
    /\ before' = EmptyTable
    /\ tcall' = "get"

Iter ==
    /\ DriverIdle
    /\ UNCHANGED <<fsvars, table, inserted, svars>>
    /\ before' = EmptyTable
    /\ tcall' = "iter"

\* ArchiveFile::write(&mut table): entries.prune_deleted() prunes the
\* driver's table in place, and the flag is not touched
TableWrite(w) ==
    /\ DriverIdle
    /\ WriteCall(w, table.entries)
    /\ table' = [table EXCEPT !.entries = PruneDeleted(table.entries)]
    /\ before' = EmptyTable
    /\ tcall' = "write"
    /\ UNCHANGED <<inserted, svars>>

\* the table a read returns replaces the driver's table
Returned(w) ==
    IF pc'[w] = "idle" /\ ret'[w].kind = "Ok"
    THEN /\ table' = ret'[w].val
         /\ before' = EmptyTable
         /\ tcall' = "read"
         /\ inserted' = FALSE
         /\ UNCHANGED svars
    ELSE UNCHANGED dvars

TableReadBegin(w) == DriverIdle /\ ReadBeginCall(w) /\ Returned(w)

TableReadFile(w) == ReadFileCall(w) /\ Returned(w)

\* the rows the driver inserts
DirtyRows == {EmptyRow, RowFile}

\* a driver with one wrapper: it reads the table of a directory, or starts
\* an empty one, looks at it, inserts into it, prunes it and writes it back
InitDirty == InitWith(ImagesOf([k \in {1} |-> RowDir]), {EncodeU32(2) \o <<0>>})

NextDirty ==
    \/ \E p \in HomePaths : New(1, p)
    \/ TableEmpty
    \/ \E k \in Keys : Get(k)
    \/ Iter
    \/ \E k \in Keys, row \in DirtyRows : Insert(k, row)
    \/ Prune
    \/ TableWrite(1)
    \/ WriteRemoveStep(1)
    \/ WriteLock(1)
    \/ WriteTruncate(1)
    \/ WriteTag(1)
    \/ WritePayload(1)
    \/ TableReadBegin(1)
    \/ ReadOpen(1)
    \/ ReadLock(1)
    \/ TableReadFile(1)

SpecDirty == InitDirty /\ [][NextDirty]_vars

\* ------------------------------------------------- the directory scanner
\* Path::starts_with: the components of `prefix` begin the components of p
StartsWith(p, prefix) ==
    Len(prefix) <= Len(p) /\ SubSeq(p, 1, Len(prefix)) = prefix

\* Regex::is_match on the string form of p
IsMatch(re, p) == \E i \in DOMAIN p : p[i] = re

\* is_ignored: a listed prefix begins the path, or a listed regex matches it
IsIgnored(rules, p) ==
    \/ \E pre \in rules.paths : StartsWith(p, pre)
    \/ \E re \in rules.regexes : IsMatch(re, p)

\* a plausible slip: whatever is there counts, a file as well
MutIsDir(r, d) == tree[r][d] # "Empty"

\* root.join(directory).is_dir()
IsDir(r, d) == tree[r][d] = "Directory"

\* a plausible slip: the subdirectories among the items are skipped
MutReadDir(r, d) ==
    {p \in RelPaths : /\ Len(p) = Len(d) + 1
                      /\ StartsWith(p, d)
                      /\ tree[r][p] = "File"}

\* fs::read_dir of the directory under root r, each item's path stripped of
\* the root: the relative paths of its direct children
ReadDir(r, d) ==
    {p \in RelPaths : /\ Len(p) = Len(d) + 1
                      /\ StartsWith(p, d)
                      /\ tree[r][p] # "Empty"}

\* ArchiveEntryPerReplica::from_roots: the state of the path under every
\* root, in the order of the root list
FromRoots(p) == [r \in Replicas |-> tree[r][p]]

\* entry(p).or_insert_with(from_roots): a key that is there keeps its row
OrInsert(entries, p) ==
    IF p \in DOMAIN entries THEN entries
    ELSE [k \in (DOMAIN entries) \cup {p} |->
             IF k = p THEN FromRoots(p) ELSE entries[k]]

\* the loop over the items of one read_dir
RECURSIVE ScanItems(_, _)
ScanItems(items, entries) ==
    IF items = {} THEN entries
    ELSE LET item == CHOOSE x \in items : TRUE
         IN  ScanItems(items \ {item},
                       IF IsIgnored(ignore, item) THEN entries
                       ELSE OrInsert(entries, item))

\* the loop over config.roots, from root r on; st holds current_entries and
\* sd_present_in_all_replicas
RECURSIVE ScanRoots(_, _, _)
ScanRoots(d, r, st) ==
    IF r > N THEN st
    ELSE ScanRoots(d, r + 1,
            IF IsDir(r, d)
            THEN [st EXCEPT !.entries = ScanItems(ReadDir(r, d), st.entries)]
            ELSE [st EXCEPT !.present = FALSE])

\* scan_directory_contents
ScanDirectoryContents(d, entries) ==
    LET st == ScanRoots(d, 1, [entries |-> entries, present |-> TRUE])
    IN  IF ~st.present THEN OrInsert(st.entries, d) ELSE st.entries

\* the driver scans directory d into its result map
Scan(d) ==
    /\ current_entries' = ScanDirectoryContents(d, current_entries)
    /\ scanned' = [done |-> TRUE, dir |-> d, start |-> current_entries]
    /\ UNCHANGED <<fsvars, tvars, tree, ignore, util>>

\* the driver starts a new result map
Clear ==
    /\ current_entries # EmptyTable
    /\ current_entries' = EmptyTable
    /\ scanned' = NoScan
    /\ UNCHANGED <<fsvars, tvars, tree, ignore, util>>

\* the driver scans the root directory and the directory in it, in any
\* order and any number of times, over replicas of every shape
InitScan == InitArchive({}, {}) /\ InitReplicas(Trees, Ignores)

NextScan ==
    \/ \E d \in {Top, Sub} : Scan(d)
    \/ Clear

SpecScan == InitScan /\ [][NextScan]_vars

\* ------------------------------------------------ the helpers of the scan
\* a plausible slip: the loop goes on after a missing root, so that the last
\* missing root is the one reported
RECURSIVE MutCheckFrom(_)
MutCheckFrom(i) ==
    IF i > N THEN [kind |-> "Ok", root |-> None, examined |-> N]
    ELSE LET rest == MutCheckFrom(i + 1)
         IN  IF rest.kind # "Ok" \/ tree[i][Top] # "Empty" THEN rest
             ELSE [kind |-> "RootDoesntExist", root |-> i, examined |-> N]

\* the loop of check_all_roots_exist from root i on: the first root that
\* does not exist ends it
RECURSIVE CheckFrom(_)
CheckFrom(i) ==
    IF i > N THEN [kind |-> "Ok", root |-> None, examined |-> N]
    ELSE IF tree[i][Top] = "Empty"
         THEN [kind |-> "RootDoesntExist", root |-> i, examined |-> i]
         ELSE CheckFrom(i + 1)

\* check_all_roots_exist(config.roots.iter())
CheckAllRootsExist ==
    /\ LET r == CheckFrom(1)
       IN  util' = [NoUtil EXCEPT !.op = "check_all_roots_exist",
                                 !.val = (r.kind = "Ok"),
                                 !.root = r.root, !.examined = r.examined]
    /\ UNCHANGED <<fsvars, tvars, tree, ignore, current_entries, scanned>>

\* a plausible slip: the loop returns after its first pair
MutIdenticalFrom(a, b, i) == a[i] = b[i]

\* the loop of are_archive_files_identical over the zipped rows, from pair
\* i on: the first pair that differs ends it
RECURSIVE IdenticalFrom(_, _, _)
IdenticalFrom(a, b, i) ==
    IF i > N THEN TRUE
    ELSE IF a[i] # b[i] THEN FALSE
    ELSE IdenticalFrom(a, b, i + 1)

\* are_archive_files_identical(a, b)
AreArchiveFilesIdentical(a, b) ==
    /\ util' = [NoUtil EXCEPT !.op = "are_archive_files_identical",
                              !.a = a, !.b = b,
                              !.val = IdenticalFrom(a, b, 1)]
    /\ UNCHANGED <<fsvars, tvars, tree, ignore, current_entries, scanned>>

\* the roots a run may find: each of them there or not
RootTrees == {t \in Trees : \A p \in RelPaths : p # Top => t[p] = "Empty"}

\* the driver checks its roots and compares rows
InitUtil == InitArchive({}, {}) /\ InitReplicas(RootTrees, {NoIgnore})

NextUtil ==
    \/ CheckAllRootsExist
    \/ \E a, b \in Rows : AreArchiveFilesIdentical(a, b)

SpecUtil == InitUtil /\ [][NextUtil]_vars

\* ------------------------------------------------------------ the claims
\* the wrapper is in the Open state: a cached handle, its lock acquired
Open(w) == life[w] = "live" /\ file[w] # None

\* the step is the return of a read of w that went through a handle
ReadReturns(w) == pc[w] = "r_read" /\ pc'[w] = "idle"

\* the first four cells are the tag of the current version
HasCurrentTag(bytes) == Len(bytes) >= 4 /\ SubSeq(bytes, 1, 4) = <<3, 0, 0, 0>>

\* the cells are an image of a non-empty table without a fully-empty row
WellPersisted(bytes) ==
    \E t \in Tables :
        /\ t # EmptyTable
        /\ \A k \in DOMAIN t : \E i \in Replicas : t[k][i] # "Empty"
        /\ bytes \in ImagesOf(t)

\* C1: at every moment at most one wrapper is in the Open state for an
\* archive file path, whatever the wrappers of that path read, write
\* (also a table that prunes to empty) and discard.
C1_MutualExclusion ==
    \A w1, w2 \in Wrappers :
        (w1 # w2 /\ Open(w1) /\ Open(w2)) => path[w1] # path[w2]

\* C2: a read never observes an intermediate state of another wrapper's
\* write: a read of a file this code produced returns Ok, with the empty table
\* or the table of the most recent finished write, and never an error.
C2_NoHalfWrittenRead ==
    [][\A w \in Wrappers :
          (ReadReturns(w) /\ ~foreign[Handle(w)]) =>
              /\ ret'[w].kind = "Ok"
              /\ ret'[w].val.entries \in {EmptyTable, lastWrite[path[w]]}]_vars

\* C9: whenever no wrapper holds the lock of an archive file (here: and no
\* call is running), the file, if it exists and was produced by this code, is
\* the tag 3 followed by a non-empty table without a fully-empty row; no
\* zero-length file and no empty payload is left on disk.
C9_PersistenceInvariant ==
    \A p \in Paths :
        (/\ dirent[p] # None
         /\ lock[dirent[p]] = None
         /\ \A w \in Wrappers : pc[w] = "idle"
         /\ ~foreign[dirent[p]]) => WellPersisted(data[dirent[p]])

\* no row of the table is fully empty
NoEmptyRow(t) == \A k \in DOMAIN t : \E i \in Replicas : t[k][i] # "Empty"

\* the step is the return of a read of w that follows a write of w
ReadAfterWrite(w) == ret[w].op = "write" /\ ret'[w].op = "read"

\* C3 (as claimed): write(T), T without a fully-empty row, then read() on
\* the same wrapper with no other session: the read yields exactly the rows of
\* T, and the file then starts with version tag 3.
C3_RoundTripTagAlways ==
    [][\A w \in Wrappers :
          (ReadAfterWrite(w) /\ ret[w].kind = "Ok" /\ NoEmptyRow(ret[w].given)) =>
              /\ ret'[w].kind = "Ok"
              /\ ret'[w].val.entries = ret[w].given
              /\ dirent'[path[w]] # None
              /\ HasCurrentTag(data'[dirent'[path[w]]])]_vars

\* C3 (amended): the read yields exactly the rows of T; when T has a row
\* the file then starts with version tag 3, and when T has none no file exists.
C3_RoundTrip ==
    [][\A w \in Wrappers :
          (ReadAfterWrite(w) /\ ret[w].kind = "Ok" /\ NoEmptyRow(ret[w].given)) =>
              /\ ret'[w].kind = "Ok"
              /\ ret'[w].val.entries = ret[w].given
              /\ IF ret[w].given = EmptyTable
                 THEN dirent'[path[w]] = None
                 ELSE /\ dirent'[path[w]] # None
                      /\ HasCurrentTag(data'[dirent'[path[w]]])]_vars

\* a read has returned a two-row table that only a write of this session
\* can have put on disk
C3_Witness ==
    \E w \in Wrappers :
        /\ pc[w] = "idle" /\ ret[w].op = "read" /\ ret[w].kind = "Ok"
        /\ ret[w].val.entries = [k \in {1, 2} |-> RowFile]
        /\ file[w] # None
        /\ HasCurrentTag(data[file[w]])

\* the step is the return of a write of w
WriteReturns(w) ==
    /\ ret'[w].op = "write" /\ pc'[w] = "idle"
    /\ pc[w] # "idle" \/ ret'[w] # ret[w]

\* C4: when write(T) returns Ok for a T that is empty once pruned, the
\* backing file does not exist and the wrapper holds no cached handle.
C4_EmptyWriteDeletes ==
    [][\A w \in Wrappers :
          (WriteReturns(w) /\ ret'[w].kind = "Ok" /\ ret'[w].wrote = EmptyTable) =>
              /\ dirent'[path[w]] = None
              /\ file'[w] = None]_vars

\* C5: a read of an existing file whose leading four cells are not the tag
\* of version 3 returns Ok with an empty, non-dirty table, and leaves the
\* file's cells as they were.
C5_VersionSoftReset ==
    [][\A w \in Wrappers :
          (ReadReturns(w) /\ Len(data[Handle(w)]) >= 4
                          /\ ~HasCurrentTag(data[Handle(w)])) =>
              /\ ret'[w].kind = "Ok"
              /\ ret'[w].val = [entries |-> EmptyTable, dirty |-> FALSE]
              /\ data'[Handle(w)] = data[Handle(w)]
              /\ dirent' = dirent]_vars

\* a read has returned the empty table for a file tagged 3 in big endian
C5_Witness ==
    \E w \in Wrappers :
        /\ pc[w] = "idle" /\ ret[w].op = "read" /\ ret[w].kind = "Ok"
        /\ ret[w].val.entries = EmptyTable
        /\ file[w] # None /\ dirent[path[w]] = file[w]
        /\ data[file[w]] = <<0, 0, 0, 3, 0>>

\* the cells begin with a payload: a count c, then c entries of a key and N
\* variant indices each
DecodablePayload(cells) ==
    /\ Len(cells) >= 1
    /\ Len(cells) >= 1 + cells[1] * (N + 1)
    /\ \A e \in 0..(cells[1] - 1) : \A i \in Replicas :
          cells[1 + e * (N + 1) + 1 + i] \in {0, 1, 2}

\* C6: a read of a file shorter than the tag returns IoError, a read of a
\* file with tag 3 and an undecodable or truncated payload returns
\* BincodeError, and a read returns Ok with the empty table only for a
\* foreign tag (or for a payload that is an empty table).
C6_HardFailuresSurface ==
    [][\A w \in Wrappers :
          ReadReturns(w) =>
              LET b == data[Handle(w)]
              IN  /\ Len(b) < 4 => ret'[w].kind = "IoError"
                  /\ (HasCurrentTag(b) /\ ~DecodablePayload(SubSeq(b, 5, Len(b))))
                        => ret'[w].kind = "BincodeError"
                  /\ (ret'[w].kind = "Ok" /\ ret'[w].val.entries = EmptyTable)
                        => \/ Len(b) >= 4 /\ ~HasCurrentTag(b)
                           \/ HasCurrentTag(b) /\ Len(b) >= 5 /\ b[5] = 0]_vars

\* a read of a file with tag 3 and a payload cut short has returned
\* BincodeError, and the wrapper is Closed
C6_Witness ==
    \E w \in Wrappers :
        /\ pc[w] = "idle" /\ ret[w].op = "read" /\ ret[w].kind = "BincodeError"
        /\ file[w] = None
        /\ dirent[path[w]] # None
        /\ data[dirent[path[w]]] = <<3, 0, 0, 0, 1, 1>>

\* C7: a discarded wrapper holds no handle and no lock on any inode,
\* whatever calls came before the discard and whether or not the path exists.
C7_DiscardReleasesLock ==
    \A w \in Wrappers :
        life[w] = "discarded" =>
            /\ file[w] = None /\ opened[w] = None
            /\ \A i \in Inodes : lock[i] # w

\* a wrapper that was Open has been discarded, and another wrapper now
\* holds the lock on the file the path names
C7_Witness ==
    \E w1, w2 \in Wrappers :
        /\ w1 # w2 /\ path[w1] = path[w2]
        /\ life[w1] = "discarded" /\ ret[w1].held
        /\ Open(w2) /\ dirent[path[w2]] = file[w2] /\ lock[file[w2]] = w2

\* the step is a call of read on w
ReadCalled(w) ==
    /\ life[w] = "live" /\ pc[w] = "idle"
    /\ \/ pc'[w] \in {"r_read", "r_open"}
       \/ pc'[w] = "idle" /\ ret'[w].op = "read" /\ ret'[w] # ret[w]

\* C8: a read called when the backing file does not exist returns an empty
\* non-dirty table at once, creates no file, acquires no lock and leaves the
\* wrapper Closed.
C8_ReadMissingNoEffect ==
    [][\A w \in Wrappers :
          (ReadCalled(w) /\ dirent[path[w]] = None) =>
              /\ pc'[w] = "idle"
              /\ ret'[w] = Ret("read", "Ok", ArchiveEntriesEmpty, NoArg, FALSE)
              /\ dirent' = dirent
              /\ lock' = lock
              /\ file'[w] = None]_vars

\* C10: prune_deleted removes a row if and only if all its N slots are
\* Empty and leaves every other row as it was; so a table without a
\* fully-empty row is unchanged, and pruning the result again changes nothing.
C10_PruneCorrect ==
    tcall = "prune_deleted" =>
        /\ DOMAIN table.entries \subseteq DOMAIN before
        /\ \A k \in DOMAIN before :
              /\ k \notin DOMAIN table.entries
                    <=> \A i \in Replicas : before[k][i] = "Empty"
              /\ k \in DOMAIN table.entries => table.entries[k] = before[k]
        /\ NoEmptyRow(before) => table.entries = before
        /\ PruneDeleted(table.entries) = table.entries

\* a prune has removed a fully-empty row and kept a row with one Empty slot
C10_Witness ==
    /\ tcall = "prune_deleted"
    /\ before = [k \in {1, 2} |-> IF k = 1 THEN EmptyRow ELSE RowFile]
    /\ table.entries = [k \in {2} |-> RowFile]

\* C11: is_dirty() is true exactly when insert has been called on the table
\* since it was constructed; a table from empty() or read() starts not dirty,
\* and get, iter, prune_deleted and write neither set nor reset the flag.
C11_DirtyFlag ==
    /\ table.dirty = inserted
    /\ tcall \in {"empty", "read"} => ~table.dirty

\* a dirty table has been written and the write has pruned a row of it: the
\* flag is still set
C11_Witness ==
    /\ tcall = "write" /\ pc[1] = "idle"
    /\ ret[1].op = "write" /\ ret[1].kind = "Ok"
    /\ ret[1].given # table.entries
    /\ table.entries # EmptyTable
    /\ table.dirty

\* the relative paths that are direct children of directory d
ChildrenOf(d) == {p \in RelPaths : Len(p) = Len(d) + 1 /\ StartsWith(p, d)}

\* C12: a scan of a directory into an empty map yields, for the children,
\* exactly the non-ignored direct children that exist under at least one root,
\* each with the row of its states under all N roots in root order; and it
\* yields nothing besides the children and the directory itself.
C12_ScannerUnion ==
    (scanned.done /\ scanned.start = EmptyTable) =>
        LET d == scanned.dir
            kids == ChildrenOf(d) \cap DOMAIN current_entries
        IN  /\ kids = {p \in ChildrenOf(d) :
                          /\ ~IsIgnored(ignore, p)
                          /\ \E r \in Replicas : tree[r][p] # "Empty"}
            /\ \A p \in kids :
                  current_entries[p] = [r \in Replicas |-> tree[r][p]]
            /\ DOMAIN current_entries \subseteq ChildrenOf(d) \cup {d}

\* root 1 holds only f and root 2 only g, f a file and g a directory: the
\* scan of their directory has both, each with its row over both roots
C12_Witness ==
    /\ scanned.done /\ scanned.dir = Sub /\ scanned.start = EmptyTable
    /\ tree[1][Sub \o <<"f">>] = "File" /\ tree[1][Sub \o <<"g">>] = "Empty"
    /\ tree[2][Sub \o <<"f">>] = "Empty" /\ tree[2][Sub \o <<"g">>] = "Directory"
    /\ DOMAIN current_entries = {Sub \o <<"f">>, Sub \o <<"g">>}
    /\ current_entries[Sub \o <<"f">>][1] = "File"
    /\ current_entries[Sub \o <<"f">>][2] = "Empty"
    /\ current_entries[Sub \o <<"g">>][1] = "Empty"
    /\ current_entries[Sub \o <<"g">>][2] = "Directory"

\* the scanned directory is not a directory under some root
MissingSomewhere(d) == \E r \in Replicas : tree[r][d] # "Directory"

C14_IgnoreFilterAlways ==
    scanned.done =>
        \A k \in (DOMAIN current_entries) \ (DOMAIN scanned.start) :
            ~IsIgnored(ignore, k)

\* C15: are_archive_files_identical(a, b) is true exactly when a[i] = b[i]
\* for every index i; so it is true of (a, a), it gives the same for (b, a),
\* and it is false when a single index differs.
C15_RowsIdentical ==
    util.op = "are_archive_files_identical" =>
        /\ util.val <=> \A i \in Replicas : util.a[i] = util.b[i]
        /\ util.val <=> IdenticalFrom(util.b, util.a, 1)
        /\ util.a = util.b => util.val
        /\ (\E i \in Replicas : util.a[i] # util.b[i]) => ~util.val

\* two rows that differ at the last index only have been compared
C15_Witness ==
    /\ util.op = "are_archive_files_identical"
    /\ \A i \in Replicas : i < N => util.a[i] = util.b[i]
    /\ util.a[N] # util.b[N]
    /\ ~util.val

\* C16: check_all_roots_exist returns Ok exactly when every root exists;
\* otherwise it returns RootDoesntExist with the first root of the list that
\* does not exist, and has looked at no root after that one.
C16_RootsExist ==
    util.op = "check_all_roots_exist" =>
        LET missing == {r \in Replicas : tree[r][Top] = "Empty"}
        IN  /\ util.val <=> missing = {}
            /\ ~util.val =>
                  /\ util.root \in missing
                  /\ \A r \in missing : util.root <= r
                  /\ util.examined = util.root

\* two roots are missing, and the call has named the first of them
C16_Witness ==
    /\ util.op = "check_all_roots_exist"
    /\ Cardinality({r \in Replicas : tree[r][Top] = "Empty"}) >= 2
    /\ ~util.val
    /\ util.root = 1

\* the step is made by wrapper w
Actor(w) == pc'[w] # pc[w] \/ ret'[w] # ret[w] \/ life'[w] # life[w]

\* the step changes the file of inode i: its cells, or a path comes to name
\* it or ceases to name it (an inode nothing refers to any more is no file)
Changes(i) ==
    \/ \E p \in Paths : (dirent[p] = i) # (dirent'[p] = i)
    \/ data'[i] # data[i] /\ InUse(i, dirent', file', opened')

\* C17: every creation, truncation, content write and deletion of an archive
\* file is a step of a wrapper that holds the lock of that file when it makes
\* the step.
C17_ChangesUnderLock ==
    [][\A i \in Inodes :
          Changes(i) => (lock[i] # None /\ Actor(lock[i]))]_vars

\* the step is the end of a call of read or write on w
CallOf(w) ==
    /\ pc[w] \in {"idle", "r_open", "r_lock", "r_read", "rm_close", "rm_unlink",
                  "w_lock", "w_trunc", "w_tag", "w_payload"}
    /\ pc'[w] \notin {"ra_close", "ra_unlink", "d_unlock", "d_fields", "d_panic"}
    /\ life'[w] = "live"
    /\ Actor(w)

\* C18 (as claimed): a wrapper that is Open stays Open, with the same handle
\* and its lock held, through every step of a read or a write on it.
C18_OpenAbsorbing ==
    [][\A w \in Wrappers :
          (Open(w) /\ CallOf(w)) =>
              /\ file'[w] = file[w]
              /\ lock'[file[w]] = w]_vars

\* C18 (amended): a wrapper that is Open stays Open, with the same handle
\* and its lock held, through every step of a read or a write on it, except
\* where a write of a table that prunes to empty finds the file and closes the
\* handle to remove it: that wrapper is Closed from then on.
C18_OpenUntilRemoved ==
    [][\A w \in Wrappers :
          (Open(w) /\ CallOf(w)) =>
              IF pc[w] = "rm_close"
              THEN /\ file'[w] = None
                   /\ \A i \in Inodes : lock'[i] # w
                   /\ arg[w].entries = EmptyTable
              ELSE /\ file'[w] = file[w]
                   /\ lock'[file[w]] = w]_vars

\* an Open wrapper has read its file with success and is Open on the same
\* file, its lock held, with the path still naming that file
C18_Witness ==
    \E w \in Wrappers :
        /\ pc[w] = "idle" /\ ret[w].op = "read" /\ ret[w].kind = "Ok"
        /\ ret[w].val.entries = [k \in {1} |-> RowFile]
        /\ Open(w) /\ lock[file[w]] = w /\ dirent[path[w]] = file[w]

\* the step is the return of an error out of read_from_file or write_to_file
FailsInFile(w) ==
    /\ pc[w] \in {"r_read", "w_trunc"}
    /\ pc'[w] = "idle"
    /\ ret'[w].kind # "Ok"

\* C19: when read_from_file or write_to_file fails in a call on a Closed
\* wrapper, which has opened and locked the file, the wrapper is Closed when
\* the call returns and holds no lock; when it fails in a call on an Open
\* wrapper, the wrapper stays Open, its lock held.
C19_FailedAccessReleases ==
    [][\A w \in Wrappers :
          FailsInFile(w) =>
              /\ file'[w] = file[w]
              /\ opened'[w] = None
              /\ file[w] = None =>
                    (lock[opened[w]] = w /\ \A i \in Inodes : lock'[i] # w)
              /\ file[w] # None => lock'[file[w]] = w]_vars

\* a write on a Closed wrapper has failed in write_to_file, and neither a
\* handle nor a lock is left with the wrapper, while the file is there
C19_Witness ==
    \E w \in Wrappers :
        /\ pc[w] = "idle" /\ ret[w].op = "write" /\ ret[w].kind = "IoError"
        /\ ret[w].wrote # EmptyTable
        /\ file[w] = None
        /\ dirent[path[w]] # None /\ lock[dirent[path[w]]] = None

\* wrapper w waits in lock_exclusive
Waits(w) == pc[w] \in {"r_lock", "w_lock"}

\* a read or write of w that waits for the lock goes on to return
Returns(w) == Waits(w) ~> (pc[w] = "idle" /\ ret[w].op \in {"read", "write"})

\* a wrapper only ever waits for a live wrapper of its own archive file
WaitsForOwnFile ==
    \A w \in Wrappers :
        (Waits(w) /\ lock[opened[w]] # None) =>
            /\ lock[opened[w]] # w
            /\ life[lock[opened[w]]] = "live"
            /\ path[lock[opened[w]]] = path[w]

\* no deadlock: some session is not held up by a lock that another holds
NoDeadlock == \E w \in Wrappers : ~Waits(w) \/ lock[opened[w]] = None

====
